---------------------------- MODULE Spec2Model ----------------------------
(***************************************************************************)
(* Model of the price monitor (src/price_monitor.py), its orchestrating    *)
(* loop (src/app.py) and the command handlers that add and remove coins    *)
(* (src/telegram_bot.py).                                                  *)
(*                                                                         *)
(* Two activities share watchlist.json: the evaluation loop, which runs    *)
(* PriceMonitor.check_price_movements once per minute, and the command     *)
(* handler, which runs PriceMonitor.add_coin / remove_coin.  Every access  *)
(* to the file, every network call and every acquisition of the file lock  *)
(* is a step of its own, so that the two activities interleave exactly     *)
(* where the threads of the program can.                                   *)
(*                                                                         *)
(* Abstractions.  Time is counted in whole minutes.  Prices are integers   *)
(* and a percent change is compared exactly (the program uses binary       *)
(* floating point).  A notification keeps the fields that decide           *)
(* behaviour; price_change, which only feeds the message text, is left     *)
(* out.  A file that a writer has opened with mode "w" and not yet         *)
(* written has size 0; every reader of the program treats a file of size   *)
(* 0 exactly as it treats the document {}, so both are the empty document  *)
(* here.                                                                   *)
(***************************************************************************)
EXTENDS Integers, Sequences, FiniteSets, TLC

(***************************************************************************)
(* Bounds of the model.                                                    *)
(***************************************************************************)
\* Number of times the clock advances while the activities interleave.
MaxAdvances == 1

\* Number of sleeps of the evaluation loop when it runs alone.
MaxSleeps == 2

\* Number of commands the handler receives in a behaviour.
MaxCommands == 1

\* The coin ids a command may name.
Coins == {1, 2}

\* The symbols the coin-info API may report for a coin id (symbols are not
\* unique per id: two coins may carry the same one).
Symbols(coin_id) == IF coin_id = 1 THEN {"AAA"} ELSE {"AAA", "BBB"}

\* The prices the quotes API may report.
Prices == {100, 102, 116}

\* The minutes by which the clock may advance in one step.
Delays == {1, 30, 1500}

(***************************************************************************)
(* Program constants.                                                      *)
(***************************************************************************)
\* Python's None in a last_price field.
None == -1

\* The absolute rule: abs(short_term_change_percent) >= 2.0, in tenths of a
\* percent.
ABSOLUTE_PERCENT == 20

\* percent is in tenths of a percent; unbounded stands for the entry
\* "minutes": float('inf').
SHORT_TERM_THRESHOLDS ==
    << [percent |-> 2,  minutes |-> 2,  unbounded |-> FALSE],
       [percent |-> 5,  minutes |-> 5,  unbounded |-> FALSE],
       [percent |-> 10, minutes |-> 10, unbounded |-> FALSE],
       [percent |-> 20, minutes |-> 30, unbounded |-> FALSE] >>

LONG_TERM_THRESHOLDS ==
    << [percent |-> 30,  minutes |-> 60,   unbounded |-> FALSE],
       [percent |-> 50,  minutes |-> 360,  unbounded |-> FALSE],
       [percent |-> 80,  minutes |-> 720,  unbounded |-> FALSE],
       [percent |-> 120, minutes |-> 1440, unbounded |-> FALSE],
       [percent |-> 150, minutes |-> 0,    unbounded |-> TRUE] >>

VARIABLES
    file,               \* watchlist.json: coin id -> serialized record
    tokens,             \* tokens.json: coin id -> [name, symbol]
    clock,              \* datetime.now(), in minutes
    advances,           \* how often the clock has advanced
    commands,           \* how many commands have been received
    lock,               \* holder of watchlist.json.lock: "free", "tick", "cmd"
    tpc,                \* position of the evaluation loop
    snapshot,           \* the document check_price_movements read
    watchlist,          \* check_price_movements: watchlist
    current_time,       \* check_price_movements: current_time
    current_prices,     \* check_price_movements: current_prices
    notifications,      \* check_price_movements: notifications
    watchlist_updated,  \* check_price_movements: watchlist_updated
    cpc,                \* position of the command handler
    cmd,                \* the command being handled: [op, coin_id]
    watchlist_data,     \* add_coin / remove_coin: watchlist_data
    cret,               \* the value the command returned
    retry_count,        \* get_coin_price: retry_count
    sent,               \* run_price_monitor: notifications handed to the notifier
    delivered           \* how many of them Telegram accepted

vars == << file, tokens, clock, advances, commands, lock, tpc, snapshot,
           watchlist, current_time, current_prices, notifications,
           watchlist_updated, cpc, cmd, watchlist_data, cret, retry_count,
           sent, delivered >>

tickVars == << tpc, snapshot, watchlist, current_time, current_prices,
               notifications, watchlist_updated >>

cmdVars == << cpc, cmd, watchlist_data, cret >>

loopVars == << retry_count, sent, delivered >>

(***************************************************************************)
(* Helpers.                                                                *)
(***************************************************************************)
EmptyDoc == << >>

\* A watchlist.json that is no JSON document: json.load raises on it.  (The
\* key 0 is no coin id.)
CorruptDoc == [c \in {0} |-> [corrupt |-> TRUE]]

NoCmd == [op |-> "none", coin_id |-> 0]

Abs(x) == IF x < 0 THEN -x ELSE x

Remove(f, k) == [x \in DOMAIN f \ {k} |-> f[x]]

Put(f, k, v) == [x \in DOMAIN f \cup {k} |-> IF x = k THEN v ELSE f[x]]

Min(S) == CHOOSE x \in S : \A y \in S : x <= y

\* The coins in the order of the keys of the document (json.dump sorts the
\* keys, and the loop over the watchlist follows the order of the file).
RECURSIVE SortedSeq(_)
SortedSeq(S) == IF S = {} THEN << >>
                ELSE << Min(S) >> \o SortedSeq(S \ {Min(S)})

\* The name the coin-info API reports for a coin id.
CoinName(coin_id) == IF coin_id = 1 THEN "Alpha" ELSE "Beta"

\* datetime.isoformat() and datetime.fromisoformat(): the file holds text,
\* the program computes with datetime objects.
IsoFormat(t) == << "iso", t >>

FromIsoFormat(s) == s[2]


(***************************************************************************)
(* load_watchlist and save_watchlist: the conversion between the document  *)
(* and the in-memory watchlist.                                            *)
(***************************************************************************)
\* datetime.fromisoformat accepts the text (it raises ValueError otherwise).
IsIsoFormat(s) == s[1] = "iso"

\* load_watchlist gets through a record: the four required fields are there
\* (line 206), each channel has its two keys (KeyError otherwise) and both
\* timestamps parse.
Loads(info) ==
    /\ {"short_term", "long_term", "name", "symbol"} \subseteq DOMAIN info
    /\ \A channel \in {"short_term", "long_term"} :
          /\ {"last_price", "last_notification_time"}
                 \subseteq DOMAIN info[channel]
          /\ IsIsoFormat(info[channel].last_notification_time)

LoadRecord(info) ==
    [ short_term |->
          [ last_price |-> info.short_term.last_price,
            last_notification_time |->
                FromIsoFormat(info.short_term.last_notification_time) ],
      long_term |->
          [ last_price |-> info.long_term.last_price,
            last_notification_time |->
                FromIsoFormat(info.long_term.last_notification_time) ],
      name |-> info.name,
      symbol |-> info.symbol ]

\* A faulty variant of LoadWatchlist: one try statement around the whole
\* loop, so that a record that raises leaves the watchlist empty.
LoadWatchlistAllOrNothing(data) ==
    IF \A coin_id \in DOMAIN data : Loads(data[coin_id])
    THEN [coin_id \in DOMAIN data |-> LoadRecord(data[coin_id])]
    ELSE << >>

\* The records that load are converted; a record that does not load is
\* skipped (continue) and the loop goes on.
LoadWatchlist(data) ==
    [coin_id \in { c \in DOMAIN data : Loads(data[c]) } |->
         LoadRecord(data[coin_id])]

SaveRecord(info) ==
    [ symbol |-> info.symbol,
      name |-> info.name,
      short_term |->
          [ last_price |-> info.short_term.last_price,
            last_notification_time |->
                IsoFormat(info.short_term.last_notification_time) ],
      long_term |->
          [ last_price |-> info.long_term.last_price,
            last_notification_time |->
                IsoFormat(info.long_term.last_notification_time) ] ]

\* The document save_watchlist writes for a watchlist.
SaveData(wl) == [coin_id \in DOMAIN wl |-> SaveRecord(wl[coin_id])]

\* The entry add_coin creates.
NewEntry(coin_id, symbol, now) ==
    [ short_term |-> [ last_price |-> None,
                       last_notification_time |-> IsoFormat(now) ],
      long_term |-> [ last_price |-> None,
                      last_notification_time |-> IsoFormat(now) ],
      name |-> CoinName(coin_id),
      symbol |-> symbol ]

(***************************************************************************)
(* check_price_movements: the evaluation of one tick.  The accumulator     *)
(* holds the locals the loop over the coins updates.                       *)
(***************************************************************************)
\* abs(((current - base) / base) * 100) >= percent, percent in tenths.
ChangeAtLeast(current_price, base, percent) ==
    Abs(current_price - base) * 1000 >= percent * base

\* A faulty variant of WithinWindow: the window excludes its boundary.
WithinWindowExclusive(elapsed, threshold) ==
    ~threshold.unbounded /\ elapsed < threshold.minutes

\* time_elapsed <= timedelta(minutes=threshold["minutes"]), for a rule with
\* a number of minutes.
WithinWindow(elapsed, threshold) ==
    ~threshold.unbounded /\ elapsed <= threshold.minutes

\* The rule's condition raises: timedelta(minutes=float('inf')) is an
\* OverflowError ("cannot convert float infinity to integer").  The window
\* is the right operand of "and", evaluated only when the change reaches
\* the rule's percent.
ThresholdRaises(threshold, current_price, base) ==
    /\ ChangeAtLeast(current_price, base, threshold.percent)
    /\ threshold.unbounded

\* A faulty variant of ThresholdMatches: the window is not looked at.
ThresholdMatchesMagnitudeOnly(threshold, current_price, base, elapsed) ==
    ChangeAtLeast(current_price, base, threshold.percent)

ThresholdMatches(threshold, current_price, base, elapsed) ==
    /\ ChangeAtLeast(current_price, base, threshold.percent)
    /\ WithinWindow(elapsed, threshold)

TableNotification(type, coin_id, info, current_price, elapsed) ==
    [ coin_name |-> info.name,
      coin_symbol |-> info.symbol,
      current_price |-> current_price,
      time_elapsed |-> elapsed,
      type |-> type,
      coin_id |-> coin_id ]

AbsoluteNotification(coin_id, info, current_price) ==
    [ coin_name |-> info.name,
      coin_symbol |-> info.symbol,
      current_price |-> current_price,
      type |-> "absolute",
      coin_id |-> coin_id ]

\* A faulty variant of ScanTable: the loop does not break at a match.
RECURSIVE ScanTableNoBreak(_, _, _, _, _, _, _)
ScanTableNoBreak(table, i, type, coin_id, info, current_price, now) ==
    IF i > Len(table) THEN << >>
    ELSE IF ThresholdRaises(table[i], current_price, info[type].last_price)
    THEN << >>
    ELSE LET elapsed == now - info[type].last_notification_time
             rest == ScanTableNoBreak(table, i + 1, type, coin_id, info,
                                      current_price, now)
         IN  IF ThresholdMatches(table[i], current_price,
                                 info[type].last_price, elapsed)
             THEN << TableNotification(type, coin_id, info, current_price,
                                       elapsed) >> \o rest
             ELSE rest

\* The scan of one threshold table raises from rule i on: it comes to a
\* rule whose condition raises before a rule matches.
RECURSIVE ScanRaises(_, _, _, _, _, _)
ScanRaises(table, i, type, info, current_price, now) ==
    /\ i <= Len(table)
    /\ \/ ThresholdRaises(table[i], current_price, info[type].last_price)
       \/ /\ ~ThresholdMatches(table[i], current_price,
                                info[type].last_price,
                                now - info[type].last_notification_time)
          /\ ScanRaises(table, i + 1, type, info, current_price, now)

\* The scan of one threshold table from rule i on: the notification of the
\* first rule that matches, and no more (the loop breaks); none when the
\* scan raises.
RECURSIVE ScanTable(_, _, _, _, _, _, _)
ScanTable(table, i, type, coin_id, info, current_price, now) ==
    IF i > Len(table) THEN << >>
    ELSE IF ThresholdRaises(table[i], current_price, info[type].last_price)
    THEN << >>
    ELSE LET elapsed == now - info[type].last_notification_time
         IN  IF ThresholdMatches(table[i], current_price,
                                 info[type].last_price, elapsed)
             THEN << TableNotification(type, coin_id, info, current_price,
                                       elapsed) >>
             ELSE ScanTable(table, i + 1, type, coin_id, info,
                            current_price, now)

\* A faulty variant of InitializeCoin: only the short-term channel is set.
InitializeCoinShortOnly(acc, coin_id, current_price, now) ==
    [ acc EXCEPT
        !.watchlist[coin_id].short_term.last_price = current_price,
        !.watchlist[coin_id].short_term.last_notification_time = now,
        !.watchlist_updated = TRUE ]

\* A coin with a null last_price: both baselines start at the current price.
InitializeCoin(acc, coin_id, current_price, now) ==
    [ acc EXCEPT
        !.watchlist[coin_id].short_term.last_price = current_price,
        !.watchlist[coin_id].long_term.last_price = current_price,
        !.watchlist[coin_id].short_term.last_notification_time = now,
        !.watchlist[coin_id].long_term.last_notification_time = now,
        !.watchlist_updated = TRUE ]

\* A faulty variant of ResetLongTerm: last_notification_time is kept.
ResetLongTermKeepsTime(acc, coin_id, current_price, now) ==
    [ acc EXCEPT
        !.watchlist[coin_id].long_term.last_price = current_price,
        !.watchlist_updated = TRUE ]

\* A faulty variant of ResetLongTerm: the short-term baseline is reset with
\* the long-term one.
ResetLongTermResetsBoth(acc, coin_id, current_price, now) ==
    [ acc EXCEPT
        !.watchlist[coin_id].long_term =
            [ last_price |-> current_price, last_notification_time |-> now ],
        !.watchlist[coin_id].short_term =
            [ last_price |-> current_price, last_notification_time |-> now ],
        !.watchlist_updated = TRUE ]

\* A long-term match resets the long-term baseline at once.
ResetLongTerm(acc, coin_id, current_price, now) ==
    [ acc EXCEPT
        !.watchlist[coin_id].long_term =
            [ last_price |-> current_price, last_notification_time |-> now ],
        !.watchlist_updated = TRUE ]

\* A faulty variant of ScanCoin: an absolute match resets the short-term
\* baseline at once, before the short-term scan reads it.
ScanCoinResetsShortEarly(acc, coin_id, current_price, now) ==
    LET loaded == acc.watchlist[coin_id]
        matched == ChangeAtLeast(current_price, loaded.short_term.last_price,
                                 ABSOLUTE_PERCENT)
        absolute ==
            IF matched
            THEN << AbsoluteNotification(coin_id, loaded, current_price) >>
            ELSE << >>
        info == IF matched
                THEN [ loaded EXCEPT !.short_term =
                           [ last_price |-> current_price,
                             last_notification_time |-> now ] ]
                ELSE loaded
        short == ScanTable(SHORT_TERM_THRESHOLDS, 1, "short_term", coin_id,
                           info, current_price, now)
        long == ScanTable(LONG_TERM_THRESHOLDS, 1, "long_term", coin_id,
                          info, current_price, now)
        scanned ==
            [ acc EXCEPT
                !.watchlist[coin_id] = info,
                !.absolute_notifications = @ \o absolute,
                !.notifications = @ \o short \o long,
                !.watchlist_updated = @ \/ matched ]
    IN  IF long = << >> THEN scanned
        ELSE ResetLongTerm(scanned, coin_id, current_price, now)

\* The absolute check, the short-term scan and the long-term scan of a coin
\* that has a price and two baselines.  An exception raised in a scan is
\* caught at the end of the iteration (line 448): what the iteration has
\* appended before stays, what would follow is skipped.
ScanCoin(acc, coin_id, current_price, now) ==
    LET info == acc.watchlist[coin_id]
        absolute ==
            IF ChangeAtLeast(current_price, info.short_term.last_price,
                             ABSOLUTE_PERCENT)
            THEN << AbsoluteNotification(coin_id, info, current_price) >>
            ELSE << >>
        short == ScanTable(SHORT_TERM_THRESHOLDS, 1, "short_term", coin_id,
                           info, current_price, now)
        long == IF ScanRaises(SHORT_TERM_THRESHOLDS, 1, "short_term", info,
                              current_price, now)
                THEN << >>
                ELSE ScanTable(LONG_TERM_THRESHOLDS, 1, "long_term",
                               coin_id, info, current_price, now)
        scanned ==
            [ acc EXCEPT
                !.absolute_notifications = @ \o absolute,
                !.notifications = @ \o short \o long ]
    IN  IF long = << >> THEN scanned
        ELSE ResetLongTerm(scanned, coin_id, current_price, now)

\* A faulty variant of ProcessCoin: a coin without a price loses its
\* baselines.
ProcessCoinUnpricedCleared(acc, coin_id, prices, now) ==
    IF coin_id \notin DOMAIN prices
    THEN [ acc EXCEPT
             !.watchlist[coin_id].short_term.last_price = None,
             !.watchlist[coin_id].long_term.last_price = None ]
    ELSE IF \/ acc.watchlist[coin_id].short_term.last_price = None
            \/ acc.watchlist[coin_id].long_term.last_price = None
         THEN InitializeCoin(acc, coin_id, prices[coin_id], now)
         ELSE IF \/ acc.watchlist[coin_id].short_term.last_price = 0
                 \/ acc.watchlist[coin_id].long_term.last_price = 0
              THEN acc
              ELSE ScanCoin(acc, coin_id, prices[coin_id], now)

\* A faulty variant of ProcessCoin: a zero baseline is taken for a missing
\* one and the coin is initialized again.
ProcessCoinZeroReinitializes(acc, coin_id, prices, now) ==
    IF coin_id \notin DOMAIN prices
    THEN acc
    ELSE IF \/ acc.watchlist[coin_id].short_term.last_price \in {None, 0}
            \/ acc.watchlist[coin_id].long_term.last_price \in {None, 0}
         THEN InitializeCoin(acc, coin_id, prices[coin_id], now)
         ELSE ScanCoin(acc, coin_id, prices[coin_id], now)

\* A faulty variant of ProcessCoin: a coin without a price is processed at
\* the price 0.
ProcessCoinDefaultsPrice(acc, coin_id, prices, now) ==
    LET current_price == IF coin_id \in DOMAIN prices THEN prices[coin_id]
                         ELSE 0
    IN  IF \/ acc.watchlist[coin_id].short_term.last_price = None
           \/ acc.watchlist[coin_id].long_term.last_price = None
        THEN InitializeCoin(acc, coin_id, current_price, now)
        ELSE IF \/ acc.watchlist[coin_id].short_term.last_price = 0
                \/ acc.watchlist[coin_id].long_term.last_price = 0
             THEN acc
             ELSE ScanCoin(acc, coin_id, current_price, now)

\* One iteration of the loop over the coins of the watchlist.
ProcessCoin(acc, coin_id, prices, now) ==
    IF coin_id \notin DOMAIN prices
    THEN acc                                    \* no price: continue
    ELSE IF \/ acc.watchlist[coin_id].short_term.last_price = None
            \/ acc.watchlist[coin_id].long_term.last_price = None
         THEN InitializeCoin(acc, coin_id, prices[coin_id], now)
         ELSE IF \/ acc.watchlist[coin_id].short_term.last_price = 0
                 \/ acc.watchlist[coin_id].long_term.last_price = 0
              THEN acc                          \* ZeroDivisionError, caught
              ELSE ScanCoin(acc, coin_id, prices[coin_id], now)

\* The loop over the coins; the try statement is inside the loop body.
RECURSIVE ProcessCoins(_, _, _, _, _)
ProcessCoins(acc, coin_ids, i, prices, now) ==
    IF i > Len(coin_ids) THEN acc
    ELSE ProcessCoins(ProcessCoin(acc, coin_ids[i], prices, now),
                      coin_ids, i + 1, prices, now)

HasShortTermFor(notifs, abs_notif) ==
    \E k \in 1..Len(notifs) :
        /\ notifs[k].coin_symbol = abs_notif.coin_symbol
        /\ notifs[k].type = "short_term"

\* A faulty variant of ResolveOverlaps: every absolute candidate is emitted.
RECURSIVE ResolveOverlapsNoSuppression(_, _, _)
ResolveOverlapsNoSuppression(notifs, absolute_notifications, i) ==
    IF i > Len(absolute_notifications) THEN notifs
    ELSE ResolveOverlapsNoSuppression(
             Append(notifs, absolute_notifications[i]),
             absolute_notifications, i + 1)

\* The overlap pass: an absolute candidate is dropped when a short-term
\* notification with its coin_symbol is in the list, and appended otherwise.
RECURSIVE ResolveOverlaps(_, _, _)
ResolveOverlaps(notifs, absolute_notifications, i) ==
    IF i > Len(absolute_notifications) THEN notifs
    ELSE ResolveOverlaps(
             IF HasShortTermFor(notifs, absolute_notifications[i])
             THEN notifs
             ELSE Append(notifs, absolute_notifications[i]),
             absolute_notifications, i + 1)

\* A faulty variant of ResetsShortTerm: an absolute alert resets nothing.
ResetsShortTermTableOnly(notification) ==
    notification.type = "short_term"

\* The notifications that reset the short-term baseline of their coin.
ResetsShortTerm(notification) ==
    notification.type = "short_term" \/ notification.type = "absolute"

RECURSIVE UpdateShortTerm(_, _, _, _)
UpdateShortTerm(wl, notifs, i, now) ==
    IF i > Len(notifs) THEN wl
    ELSE UpdateShortTerm(
             IF ResetsShortTerm(notifs[i])
             THEN [ wl EXCEPT ![notifs[i].coin_id].short_term =
                        [ last_price |-> notifs[i].current_price,
                          last_notification_time |-> now ] ]
             ELSE wl,
             notifs, i + 1, now)

\* check_price_movements from the loop over the coins to the decision to
\* save: the watchlist, the notifications and watchlist_updated.
Evaluate(wl, prices, now) ==
    LET scanned ==
            ProcessCoins([ watchlist |-> wl,
                           notifications |-> << >>,
                           absolute_notifications |-> << >>,
                           watchlist_updated |-> FALSE ],
                         SortedSeq(DOMAIN wl), 1, prices, now)
        notifs == ResolveOverlaps(scanned.notifications,
                                  scanned.absolute_notifications, 1)
    IN  [ watchlist |-> UpdateShortTerm(scanned.watchlist, notifs, 1, now),
          notifications |-> notifs,
          watchlist_updated |->
              \/ scanned.watchlist_updated
              \/ \E k \in 1..Len(notifs) : ResetsShortTerm(notifs[k]) ]


(***************************************************************************)
(* The initial state.  watchlist.json outlives the process: the program    *)
(* starts on the document earlier runs of add_coin have left, in which     *)
(* every coin is absent or freshly added (PriceMonitor.__init__ creates    *)
(* the document {} when there is none).                                    *)
(***************************************************************************)
FreshDocs ==
    UNION { { [c \in present |-> NewEntry(c, symbol[c], 0)] :
                  symbol \in { f \in [present -> {"AAA", "BBB"}] :
                                  \A c \in present : f[c] \in Symbols(c) } } :
            present \in SUBSET Coins }

Init ==
    /\ file \in FreshDocs
    /\ tokens = [c \in DOMAIN file |->
                    [name |-> file[c].name, symbol |-> file[c].symbol]]
    /\ clock = 0
    /\ advances = 0
    /\ commands = 0
    /\ lock = "free"
    /\ tpc = "idle"
    /\ snapshot = EmptyDoc
    /\ watchlist = << >>
    /\ current_time = 0
    /\ current_prices = << >>
    /\ notifications = << >>
    /\ watchlist_updated = FALSE
    /\ cpc = "idle"
    /\ cmd = NoCmd
    /\ watchlist_data = EmptyDoc
    /\ cret = FALSE
    /\ retry_count = 0
    /\ sent = 0
    /\ delivered = 0

(***************************************************************************)
(* Time.  At the granularity of minutes the clock advances only while an   *)
(* activity is blocked: the evaluation loop in its sleep of 60 seconds     *)
(* after a tick (so the next tick starts only after the clock has          *)
(* advanced), the command handler in its request to the coin-info API.     *)
(***************************************************************************)
Advance ==
    /\ advances < MaxAdvances
    /\ tpc = "sleep" \/ cpc = "info"
    /\ \E d \in Delays : clock' = clock + d
    /\ advances' = advances + 1
    /\ tpc' = IF tpc = "sleep" THEN "idle" ELSE tpc
    /\ UNCHANGED << file, tokens, commands, lock, snapshot, watchlist,
                    current_time, current_prices, notifications,
                    watchlist_updated >>
    /\ UNCHANGED cmdVars
    /\ UNCHANGED loopVars

(***************************************************************************)
(* The evaluation loop: run_price_monitor and check_price_movements.       *)
(***************************************************************************)
\* load_watchlist; an empty watchlist returns [] at once.
TickLoad ==
    /\ tpc = "idle"
    /\ snapshot' = file
    /\ watchlist' = LoadWatchlist(file)
    /\ current_time' = clock
    /\ tpc' = IF LoadWatchlist(file) = << >> THEN "return" ELSE "fetch"
    /\ UNCHANGED << file, tokens, clock, advances, commands, lock, current_prices,
                    notifications, watchlist_updated >>
    /\ UNCHANGED cmdVars
    /\ UNCHANGED loopVars

\* get_coin_price answers with the prices of some of the coins (none when
\* every attempt failed); then the coins are scanned, the overlaps are
\* resolved and the short-term baselines are reset.
TickEvaluate ==
    /\ tpc = "fetch"
    /\ \E priced \in SUBSET DOMAIN watchlist :
       \E prices \in [priced -> Prices] :
          LET r == Evaluate(watchlist, prices, current_time)
          IN  /\ current_prices' = prices
              /\ watchlist' = r.watchlist
              /\ notifications' = r.notifications
              /\ watchlist_updated' = r.watchlist_updated
              /\ tpc' = IF r.watchlist_updated THEN "save" ELSE "return"
    /\ UNCHANGED << file, tokens, clock, advances, commands, lock, snapshot,
                    current_time >>
    /\ UNCHANGED cmdVars
    /\ UNCHANGED loopVars

\* save_watchlist: FileLock acquired, watchlist.json opened with mode "w".
TickOpen ==
    /\ tpc = "save"
    /\ lock = "free"
    /\ lock' = "tick"
    /\ file' = EmptyDoc
    /\ tpc' = "write"
    /\ UNCHANGED << tokens, clock, advances, commands, snapshot, watchlist,
                    current_time, current_prices, notifications,
                    watchlist_updated >>
    /\ UNCHANGED cmdVars
    /\ UNCHANGED loopVars

\* save_watchlist: json.dump, the file closed, the lock released.
TickWrite ==
    /\ tpc = "write"
    /\ file' = SaveData(watchlist)
    /\ lock' = "free"
    /\ tpc' = "return"
    /\ UNCHANGED << tokens, clock, advances, commands, snapshot, watchlist,
                    current_time, current_prices, notifications,
                    watchlist_updated >>
    /\ UNCHANGED cmdVars
    /\ UNCHANGED loopVars

\* check_price_movements returns; the loop sends the notifications and
\* sleeps.
TickReturn ==
    /\ tpc = "return"
    /\ tpc' = "sleep"
    /\ snapshot' = EmptyDoc
    /\ watchlist' = << >>
    /\ current_time' = 0
    /\ current_prices' = << >>
    /\ notifications' = << >>
    /\ watchlist_updated' = FALSE
    /\ UNCHANGED << file, tokens, clock, advances, commands, lock >>
    /\ UNCHANGED cmdVars
    /\ UNCHANGED loopVars

(***************************************************************************)
(* The command handler: add_coin and remove_coin.                          *)
(***************************************************************************)
\* add_coin reads the document; a coin already in it returns True.  A file
\* json.load raises on returns False (the except of line 147).
AddRead ==
    /\ cpc = "idle"
    /\ commands < MaxCommands
    /\ commands' = commands + 1
    /\ \E coin_id \in Coins :
          /\ cmd' = [op |-> "add", coin_id |-> coin_id]
          /\ IF file = CorruptDoc
             THEN /\ watchlist_data' = EmptyDoc
                  /\ cpc' = "return" /\ cret' = FALSE
             ELSE /\ watchlist_data' = file
                  /\ IF coin_id \in DOMAIN file
                     THEN cpc' = "return" /\ cret' = TRUE
                     ELSE cpc' = "info" /\ cret' = FALSE
    /\ UNCHANGED << file, tokens, clock, advances, lock >>
    /\ UNCHANGED tickVars
    /\ UNCHANGED loopVars

\* add_coin: the coin-info request failed or did not know the coin.
AddInfoFails ==
    /\ cpc = "info"
    /\ cpc' = "return"
    /\ cret' = FALSE
    /\ UNCHANGED << file, tokens, clock, advances, commands, lock, cmd,
                    watchlist_data >>
    /\ UNCHANGED tickVars
    /\ UNCHANGED loopVars

\* add_coin: the coin-info request succeeded; tokens.json is saved and the
\* new entry is put into the document that was read.
AddInfo ==
    /\ cpc = "info"
    /\ \E symbol \in Symbols(cmd.coin_id) :
          /\ tokens' = Put(tokens, cmd.coin_id,
                           [name |-> CoinName(cmd.coin_id),
                            symbol |-> symbol])
          /\ watchlist_data' = Put(watchlist_data, cmd.coin_id,
                                   NewEntry(cmd.coin_id, symbol, clock))
    /\ cpc' = "save"
    /\ UNCHANGED << file, clock, advances, commands, lock, cmd, cret >>
    /\ UNCHANGED tickVars
    /\ UNCHANGED loopVars

\* remove_coin reads the document; a coin that is not in it returns False.
RemoveRead ==
    /\ cpc = "idle"
    /\ commands < MaxCommands
    /\ commands' = commands + 1
    /\ \E coin_id \in Coins :
          /\ cmd' = [op |-> "remove", coin_id |-> coin_id]
          /\ IF file = CorruptDoc
             THEN /\ watchlist_data' = EmptyDoc
                  /\ cpc' = "return"
             ELSE IF coin_id \in DOMAIN file
             THEN /\ watchlist_data' = Remove(file, coin_id)
                  /\ cpc' = "save"
             ELSE /\ watchlist_data' = file
                  /\ cpc' = "return"
    /\ cret' = FALSE
    /\ UNCHANGED << file, tokens, clock, advances, lock >>
    /\ UNCHANGED tickVars
    /\ UNCHANGED loopVars

\* add_coin / remove_coin: FileLock acquired, watchlist.json opened with
\* mode "w".
CmdOpen ==
    /\ cpc = "save"
    /\ lock = "free"
    /\ lock' = "cmd"
    /\ file' = EmptyDoc
    /\ cpc' = "write"
    /\ UNCHANGED << tokens, clock, advances, commands, cmd, watchlist_data, cret >>
    /\ UNCHANGED tickVars
    /\ UNCHANGED loopVars

\* add_coin / remove_coin: json.dump, the file closed, the lock released;
\* remove_coin then deletes the coin from tokens.json.
CmdWrite ==
    /\ cpc = "write"
    /\ file' = watchlist_data
    /\ lock' = "free"
    /\ tokens' = IF cmd.op = "remove" THEN Remove(tokens, cmd.coin_id)
                 ELSE tokens
    /\ cpc' = "return"
    /\ cret' = TRUE
    /\ UNCHANGED << clock, advances, commands, cmd, watchlist_data >>
    /\ UNCHANGED tickVars
    /\ UNCHANGED loopVars

\* The command has answered.
CmdReturn ==
    /\ cpc = "return"
    /\ cpc' = "idle"
    /\ cmd' = NoCmd
    /\ watchlist_data' = EmptyDoc
    /\ cret' = FALSE
    /\ UNCHANGED << file, tokens, clock, advances, commands, lock >>
    /\ UNCHANGED tickVars
    /\ UNCHANGED loopVars

Next ==
    \/ Advance
    \/ TickLoad
    \/ TickEvaluate
    \/ TickOpen
    \/ TickWrite
    \/ TickReturn
    \/ AddRead
    \/ AddInfoFails
    \/ AddInfo
    \/ RemoveRead
    \/ CmdOpen
    \/ CmdWrite
    \/ CmdReturn

Spec == Init /\ [][Next]_vars


(***************************************************************************)
(* The evaluation loop alone: no command arrives, so nothing interleaves   *)
(* with a tick and run_price_monitor's loop body is one step,              *)
(* check_price_movements from its load to its return.  The locals of the   *)
(* tick stay readable until the sleep ends.                                *)
(***************************************************************************)
Tick ==
    /\ tpc = "idle"
    /\ snapshot' = file
    /\ current_time' = clock
    /\ IF LoadWatchlist(file) = << >>
       THEN /\ watchlist' = << >>
            /\ current_prices' = << >>
            /\ notifications' = << >>
            /\ watchlist_updated' = FALSE
            /\ file' = file
       ELSE \E priced \in SUBSET DOMAIN LoadWatchlist(file) :
            \E prices \in [priced -> Prices] :
               LET r == Evaluate(LoadWatchlist(file), prices, clock)
               IN  /\ current_prices' = prices
                   /\ watchlist' = r.watchlist
                   /\ notifications' = r.notifications
                   /\ watchlist_updated' = r.watchlist_updated
                   /\ file' = IF r.watchlist_updated
                              THEN SaveData(r.watchlist)
                              ELSE file
    /\ tpc' = "sleep"
    /\ UNCHANGED << tokens, clock, advances, commands, lock >>
    /\ UNCHANGED cmdVars
    /\ UNCHANGED loopVars

\* time.sleep(60) at the end of the loop body.
Sleep ==
    /\ tpc = "sleep"
    /\ advances < MaxSleeps
    /\ \E d \in Delays : clock' = clock + d
    /\ advances' = advances + 1
    /\ tpc' = "idle"
    /\ snapshot' = EmptyDoc
    /\ watchlist' = << >>
    /\ current_time' = 0
    /\ current_prices' = << >>
    /\ notifications' = << >>
    /\ watchlist_updated' = FALSE
    /\ UNCHANGED << file, tokens, commands, lock >>
    /\ UNCHANGED cmdVars
    /\ UNCHANGED loopVars

NextTick ==
    \/ Tick
    \/ Sleep

SpecTick == Init /\ [][NextTick]_vars

(***************************************************************************)
(* The evaluation loop alone, step by step: run_price_monitor with         *)
(* load_watchlist, every attempt of get_coin_price, the evaluation, the    *)
(* save and the hand-over of each notification to Telegram as steps of     *)
(* their own.  An exception that reaches run_price_monitor's loop ends the *)
(* loop (app.py:54): the position "exited".                                *)
(***************************************************************************)
\* Number of sleeps of the evaluation loop when it runs step by step.
MaxLoopSleeps == 1

\* The prices the quotes API may report to the loop run step by step; a
\* delisted coin is quoted at 0.
Quotes == {0, 100, 116}

\* A faulty variant of max_retries: one attempt more.
max_retries_OneMore == 3 + 1

max_retries == 3

BATCH_SIZE == 100

\* The outcomes of a request to the Telegram API: accepted, answered with
\* ok = false, or failed (no connection, no JSON in the answer).
SendOutcomes == {"ok", "not_ok", "error"}

\* coin_ids[i:i + BATCH_SIZE] for i in range(0, len(coin_ids), BATCH_SIZE).
RECURSIVE Batches(_)
Batches(coin_ids) ==
    IF coin_ids = << >> THEN << >>
    ELSE IF Len(coin_ids) <= BATCH_SIZE THEN << coin_ids >>
         ELSE << SubSeq(coin_ids, 1, BATCH_SIZE) >>
                  \o Batches(SubSeq(coin_ids, BATCH_SIZE + 1, Len(coin_ids)))

\* What the quotes API may answer to the request for one batch: an answer
\* the program cannot use (no connection, an error document, a price that
\* is no number), or the prices of some of the coins of the batch.
BatchAnswers(batch) ==
    { [ok |-> FALSE, batch_prices |-> << >>] }
        \cup { [ok |-> TRUE, batch_prices |-> m] :
                   m \in UNION { [priced -> Quotes] :
                                     priced \in SUBSET { batch[k] :
                                         k \in 1..Len(batch) } } }

\* The answers to the requests of one attempt, one per batch.
AttemptAnswers(batches) ==
    { answers \in [ 1..Len(batches) ->
                        UNION { BatchAnswers(batches[k]) :
                                    k \in 1..Len(batches) } ] :
          \A k \in 1..Len(batches) : answers[k] \in BatchAnswers(batches[k]) }

\* dict.update.
Update(f, g) ==
    [x \in DOMAIN f \cup DOMAIN g |-> IF x \in DOMAIN g THEN g[x] ELSE f[x]]

\* all_prices after the batches from k on.
RECURSIVE AllPrices(_, _, _)
AllPrices(all_prices, answers, k) ==
    IF k > Len(answers) THEN all_prices
    ELSE AllPrices(Update(all_prices, answers[k].batch_prices), answers, k + 1)

\* One pass of the body of get_coin_price's while loop: the first answer
\* that cannot be used raises, and all_prices is dropped.
Attempt(answers) ==
    IF \E k \in 1..Len(answers) : ~answers[k].ok
    THEN [raised |-> TRUE, all_prices |-> << >>]
    ELSE [raised |-> FALSE, all_prices |-> AllPrices(<< >>, answers, 1)]

\* get_coin_price, one attempt.  A failed attempt counts; the third failure
\* returns {}; an attempt in which every batch is answered returns
\* all_prices.  The two seconds between attempts are below the clock.
GetCoinPriceAttempt ==
    /\ tpc = "fetch"
    /\ retry_count < max_retries
    /\ \E answers \in AttemptAnswers(Batches(SortedSeq(DOMAIN watchlist))) :
          LET r == Attempt(answers)
          IN  IF r.raised
              THEN /\ retry_count' = retry_count + 1
                   /\ IF retry_count + 1 >= max_retries
                      THEN current_prices' = << >> /\ tpc' = "evaluate"
                      ELSE UNCHANGED << current_prices, tpc >>
              ELSE /\ retry_count' = retry_count
                   /\ current_prices' = r.all_prices
                   /\ tpc' = "evaluate"
    /\ UNCHANGED << file, tokens, clock, advances, commands, lock, snapshot,
                    watchlist, current_time, notifications,
                    watchlist_updated, sent, delivered >>
    /\ UNCHANGED cmdVars

\* A faulty variant of AfterEvaluation: the tick never saves.
AfterEvaluationSkipsSave(updated) == "return"

\* A faulty variant of AfterEvaluation: the watchlist is saved in every tick.
AfterEvaluationAlwaysSaves(updated) == "save"

\* if watchlist_updated: self.save_watchlist(watchlist); return notifications.
AfterEvaluation(updated) == IF updated THEN "save" ELSE "return"

\* The loop over the coins, the overlap pass and the short-term resets.
LoopEvaluate ==
    /\ tpc = "evaluate"
    /\ LET r == Evaluate(watchlist, current_prices, current_time)
       IN  /\ watchlist' = r.watchlist
           /\ notifications' = r.notifications
           /\ watchlist_updated' = r.watchlist_updated
           /\ tpc' = AfterEvaluation(r.watchlist_updated)
    /\ UNCHANGED << file, tokens, clock, advances, commands, lock, snapshot,
                    current_time, current_prices >>
    /\ UNCHANGED cmdVars
    /\ UNCHANGED loopVars

\* A faulty variant of SendTelegramNotification: a failed request raises.
SendTelegramNotificationRaises(outcome) ==
    IF outcome = "error" THEN "raised" ELSE "returned"

\* send_telegram_notification: an answer without ok is logged, an exception
\* is caught and logged; the method returns in every case.
SendTelegramNotification(outcome) == "returned"

\* run_price_monitor hands the next notification to Telegram.
SendNotification ==
    /\ tpc = "return"
    /\ sent < Len(notifications)
    /\ \E outcome \in SendOutcomes :
          IF SendTelegramNotification(outcome) = "raised"
          THEN /\ tpc' = "exited"
               /\ UNCHANGED << sent, delivered >>
          ELSE /\ tpc' = tpc
               /\ sent' = sent + 1
               /\ delivered' = IF outcome = "ok" THEN delivered + 1
                               ELSE delivered
    /\ UNCHANGED << file, tokens, clock, advances, commands, lock, snapshot,
                    watchlist, current_time, current_prices, notifications,
                    watchlist_updated, retry_count >>
    /\ UNCHANGED cmdVars

\* Every notification is handed over: time.sleep(60), then the next pass.
LoopSleep ==
    /\ tpc = "return"
    /\ sent = Len(notifications)
    /\ advances < MaxLoopSleeps
    /\ \E d \in Delays : clock' = clock + d
    /\ advances' = advances + 1
    /\ tpc' = "idle"
    /\ snapshot' = EmptyDoc
    /\ watchlist' = << >>
    /\ current_time' = 0
    /\ current_prices' = << >>
    /\ notifications' = << >>
    /\ watchlist_updated' = FALSE
    /\ retry_count' = 0
    /\ sent' = 0
    /\ delivered' = 0
    /\ UNCHANGED << file, tokens, commands, lock >>
    /\ UNCHANGED cmdVars

NextLoop ==
    \/ TickLoad
    \/ GetCoinPriceAttempt
    \/ LoopEvaluate
    \/ TickOpen
    \/ TickWrite
    \/ SendNotification
    \/ LoopSleep

SpecLoop == Init /\ [][NextLoop]_vars

\* The loop under the scheduling the program runs with: the thread of
\* run_price_monitor keeps being scheduled, every file operation completes
\* and every HTTP request returns or raises, so a step of the loop that is
\* possible is eventually taken.
\* Weak fairness of LoopEvaluate with its enabling condition written out:
\* the step is possible exactly when the loop is at "evaluate".
EvaluateFair == []<>(tpc # "evaluate") \/ []<><<LoopEvaluate>>_vars

SpecLoopFair ==
    /\ SpecLoop
    /\ WF_vars(TickLoad)
    /\ WF_vars(GetCoinPriceAttempt)
    /\ EvaluateFair
    /\ WF_vars(TickOpen)
    /\ WF_vars(TickWrite)
    /\ WF_vars(SendNotification)
    /\ WF_vars(LoopSleep)

(***************************************************************************)
(* The evaluation loop on a document it did not write alone.               *)
(* watchlist.json is a file the user can edit and earlier versions of the  *)
(* program have written: a record may lack a required field or hold a      *)
(* timestamp that is no ISO text.  Besides such records the document holds *)
(* records as add_coin writes them and records as a tick leaves them.      *)
(***************************************************************************)
\* A record without its long_term field.
MissingField(info) ==
    [ short_term |-> info.short_term, name |-> info.name,
      symbol |-> info.symbol ]

\* A record whose long-term timestamp does not parse.
BadTimestamp(info) ==
    [ info EXCEPT !.long_term.last_notification_time = << "text", 0 >> ]

\* A record a tick at minute 0 has initialized at the price 100.
Baselined(info) ==
    [ info EXCEPT !.short_term.last_price = 100,
                  !.long_term.last_price = 100 ]

StoredRecords(coin_id) ==
    UNION { { NewEntry(coin_id, symbol, 0),
              Baselined(NewEntry(coin_id, symbol, 0)),
              MissingField(NewEntry(coin_id, symbol, 0)),
              BadTimestamp(NewEntry(coin_id, symbol, 0)) } :
            symbol \in Symbols(coin_id) }

StoredDocs ==
    UNION { { doc \in [present -> UNION { StoredRecords(c) : c \in present }] :
                  \A c \in present : doc[c] \in StoredRecords(c) } :
            present \in SUBSET Coins }

InitLoad ==
    /\ file \in StoredDocs
    /\ tokens = [c \in DOMAIN file |->
                    [name |-> file[c].name, symbol |-> file[c].symbol]]
    /\ clock = 0
    /\ advances = 0
    /\ commands = 0
    /\ lock = "free"
    /\ tpc = "idle"
    /\ snapshot = EmptyDoc
    /\ watchlist = << >>
    /\ current_time = 0
    /\ current_prices = << >>
    /\ notifications = << >>
    /\ watchlist_updated = FALSE
    /\ cpc = "idle"
    /\ cmd = NoCmd
    /\ watchlist_data = EmptyDoc
    /\ cret = FALSE
    /\ retry_count = 0
    /\ sent = 0
    /\ delivered = 0

SpecLoad == InitLoad /\ [][NextLoop]_vars

(***************************************************************************)
(* price_monitor.main: the loop that, besides the tick, syncs tokens.json  *)
(* into the watchlist.  Each pass of the loop syncs when 10 seconds have   *)
(* gone by and then runs check_price_movements when the check interval has *)
(* gone by, so a sync runs before a tick, any number of times.  The bot's  *)
(* commands run beside the loop as they do beside run_price_monitor.       *)
(***************************************************************************)
\* A faulty variant of SyncEntry: the short-term baseline gets a
\* placeholder price.
SyncEntryShortPlaceholder(token, now) ==
    [ short_term |-> [ last_price |-> 0, last_notification_time |-> now ],
      long_term |-> [ last_price |-> None, last_notification_time |-> now ],
      name |-> token.name,
      symbol |-> token.symbol ]

\* The entry the sync creates for a token that is not in the watchlist.
SyncEntry(token, now) ==
    [ short_term |-> [ last_price |-> None, last_notification_time |-> now ],
      long_term |-> [ last_price |-> None, last_notification_time |-> now ],
      name |-> token.name,
      symbol |-> token.symbol ]

\* The watchlist after the loop over current_tokens.
SyncWatchlist(wl, current_tokens, now) ==
    [ token_id \in DOMAIN wl \cup DOMAIN current_tokens |->
          IF token_id \in DOMAIN wl THEN wl[token_id]
          ELSE SyncEntry(current_tokens[token_id], now) ]

\* tokens.json and the watchlist are read and the missing tokens added; the
\* watchlist is saved only when a token was added.
Sync ==
    /\ tpc = "idle"
    /\ LET loaded == LoadWatchlist(file)
           tokens_added == DOMAIN tokens \ DOMAIN loaded # {}
       IN  /\ watchlist' = IF tokens_added
                           THEN SyncWatchlist(loaded, tokens, clock)
                           ELSE << >>
           /\ tpc' = IF tokens_added THEN "sync_save" ELSE "idle"
    /\ UNCHANGED << file, tokens, clock, advances, commands, lock, snapshot,
                    current_time, current_prices, notifications,
                    watchlist_updated >>
    /\ UNCHANGED cmdVars
    /\ UNCHANGED loopVars

\* save_watchlist of the sync: FileLock acquired, watchlist.json opened
\* with mode "w".
SyncOpen ==
    /\ tpc = "sync_save"
    /\ lock = "free"
    /\ lock' = "sync"
    /\ file' = EmptyDoc
    /\ tpc' = "sync_write"
    /\ UNCHANGED << tokens, clock, advances, commands, snapshot, watchlist,
                    current_time, current_prices, notifications,
                    watchlist_updated >>
    /\ UNCHANGED cmdVars
    /\ UNCHANGED loopVars

\* save_watchlist of the sync: json.dump, the file closed, the lock
\* released.
SyncWrite ==
    /\ tpc = "sync_write"
    /\ file' = SaveData(watchlist)
    /\ lock' = "free"
    /\ watchlist' = << >>
    /\ tpc' = "idle"
    /\ UNCHANGED << tokens, clock, advances, commands, snapshot,
                    current_time, current_prices, notifications,
                    watchlist_updated >>
    /\ UNCHANGED cmdVars
    /\ UNCHANGED loopVars

NextMain ==
    \/ Sync
    \/ SyncOpen
    \/ SyncWrite
    \/ Advance
    \/ TickLoad
    \/ TickEvaluate
    \/ TickOpen
    \/ TickWrite
    \/ TickReturn
    \/ AddRead
    \/ AddInfoFails
    \/ AddInfo
    \/ RemoveRead
    \/ CmdOpen
    \/ CmdWrite
    \/ CmdReturn

SpecMain == Init /\ [][NextMain]_vars

(***************************************************************************)
(* The start of the evaluation loop beside the command handler.  The bot   *)
(* constructs its PriceMonitor when telegram_bot is imported; the          *)
(* evaluation loop constructs its own as its first statement               *)
(* (app.py:17, price_monitor.py:539), when the bot may already be handling *)
(* a command.  The steps of PriceMonitor.__init__ that touch               *)
(* watchlist.json are the test of its size, the open with mode "w" and     *)
(* the close that flushes json.dump({}).                                   *)
(***************************************************************************)
\* os.path.getsize("watchlist.json") == 0: the file exists (the bot's
\* constructor has created it) and has size 0 only between a writer's open
\* with mode "w" and its dump, i.e. while a writer holds the lock.
SizeIsZero == lock # "free"

InitStart ==
    /\ file \in FreshDocs
    /\ tokens = [c \in DOMAIN file |->
                    [name |-> file[c].name, symbol |-> file[c].symbol]]
    /\ clock = 0
    /\ advances = 0
    /\ commands = 0
    /\ lock = "free"
    /\ tpc = "start"
    /\ snapshot = EmptyDoc
    /\ watchlist = << >>
    /\ current_time = 0
    /\ current_prices = << >>
    /\ notifications = << >>
    /\ watchlist_updated = FALSE
    /\ cpc = "idle"
    /\ cmd = NoCmd
    /\ watchlist_data = EmptyDoc
    /\ cret = FALSE
    /\ retry_count = 0
    /\ sent = 0
    /\ delivered = 0

\* __init__: if not os.path.exists(...) or os.path.getsize(...) == 0.
MonitorInitCheck ==
    /\ tpc = "start"
    /\ tpc' = IF SizeIsZero THEN "init_open" ELSE "idle"
    /\ UNCHANGED << file, tokens, clock, advances, commands, lock, snapshot,
                    watchlist, current_time, current_prices, notifications,
                    watchlist_updated >>
    /\ UNCHANGED cmdVars
    /\ UNCHANGED loopVars

\* __init__: open('watchlist.json', 'w'), without the lock: the file is
\* truncated, whatever a command has written since the test.
MonitorInitOpen ==
    /\ tpc = "init_open"
    /\ file' = EmptyDoc
    /\ tpc' = "init_write"
    /\ UNCHANGED << tokens, clock, advances, commands, lock, snapshot,
                    watchlist, current_time, current_prices, notifications,
                    watchlist_updated >>
    /\ UNCHANGED cmdVars
    /\ UNCHANGED loopVars

\* __init__: json.dump({}) reaches the file when it is closed.  The two
\* bytes are written at offset 0: over a document a command has dumped
\* through its own handle since the open they leave text that is no JSON
\* (unless that document is {} itself).
MonitorInitWrite ==
    /\ tpc = "init_write"
    /\ file' = IF file = EmptyDoc THEN EmptyDoc ELSE CorruptDoc
    /\ tpc' = "idle"
    /\ UNCHANGED << tokens, clock, advances, commands, lock, snapshot,
                    watchlist, current_time, current_prices, notifications,
                    watchlist_updated >>
    /\ UNCHANGED cmdVars
    /\ UNCHANGED loopVars

NextStart ==
    \/ MonitorInitCheck
    \/ MonitorInitOpen
    \/ MonitorInitWrite
    \/ Advance
    \/ TickLoad
    \/ TickEvaluate
    \/ TickOpen
    \/ TickWrite
    \/ TickReturn
    \/ AddRead
    \/ AddInfoFails
    \/ AddInfo
    \/ RemoveRead
    \/ CmdOpen
    \/ CmdWrite
    \/ CmdReturn

SpecStart == InitStart /\ [][NextStart]_vars

(***************************************************************************)
(* The evaluation loop alone, with ticks that see the quotes of the tick   *)
(* before: besides Tick and Sleep, the sleep and the next tick in one      *)
(* step, in which get_coin_price answers with the price map it answered    *)
(* with in the tick before.                                                *)
(***************************************************************************)
SleepAndTickAgain ==
    /\ tpc = "sleep"
    /\ advances < MaxSleeps
    /\ advances' = advances + 1
    /\ \E d \in Delays :
          /\ clock' = clock + d
          /\ current_time' = clock + d
          /\ IF LoadWatchlist(file) = << >>
             THEN /\ watchlist' = << >>
                  /\ current_prices' = << >>
                  /\ notifications' = << >>
                  /\ watchlist_updated' = FALSE
                  /\ file' = file
             ELSE LET r == Evaluate(LoadWatchlist(file), current_prices,
                                    clock + d)
                  IN  /\ current_prices' = current_prices
                      /\ watchlist' = r.watchlist
                      /\ notifications' = r.notifications
                      /\ watchlist_updated' = r.watchlist_updated
                      /\ file' = IF r.watchlist_updated
                                 THEN SaveData(r.watchlist)
                                 ELSE file
    /\ snapshot' = file
    /\ tpc' = "sleep"
    /\ UNCHANGED << tokens, commands, lock >>
    /\ UNCHANGED cmdVars
    /\ UNCHANGED loopVars

NextRepeat ==
    \/ Tick
    \/ Sleep
    \/ SleepAndTickAgain

\* The program starts on the document an earlier run has left: a coin is
\* absent, freshly added or baselined by a tick of that run, any time ago.
RestartRecords(coin_id) ==
    UNION { { NewEntry(coin_id, symbol, 0),
              Baselined(NewEntry(coin_id, symbol, 0)) } :
            symbol \in Symbols(coin_id) }

RestartDocs ==
    UNION { { doc \in [present -> UNION { RestartRecords(c) : c \in present }] :
                  \A c \in present : doc[c] \in RestartRecords(c) } :
            present \in SUBSET Coins }

\* The minutes between the timestamps of the document and the start.
RestartClocks == {0} \cup Delays

InitRepeat ==
    /\ file \in RestartDocs
    /\ tokens = [c \in DOMAIN file |->
                    [name |-> file[c].name, symbol |-> file[c].symbol]]
    /\ clock \in RestartClocks
    /\ advances = 0
    /\ commands = 0
    /\ lock = "free"
    /\ tpc = "idle"
    /\ snapshot = EmptyDoc
    /\ watchlist = << >>
    /\ current_time = 0
    /\ current_prices = << >>
    /\ notifications = << >>
    /\ watchlist_updated = FALSE
    /\ cpc = "idle"
    /\ cmd = NoCmd
    /\ watchlist_data = EmptyDoc
    /\ cret = FALSE
    /\ retry_count = 0
    /\ sent = 0
    /\ delivered = 0

SpecRepeat == InitRepeat /\ [][NextRepeat]_vars

(***************************************************************************)
(* Properties of one tick, read in the state the tick leaves (SpecTick):   *)
(* snapshot is the document before the tick, file the document after it.   *)
(***************************************************************************)
Ticked == tpc = "sleep" /\ snapshot # EmptyDoc

Priced(coin_id) == coin_id \in DOMAIN current_prices

\* The coin had no baseline on one of its channels when the tick loaded it.
Unbaselined(coin_id) ==
    \/ snapshot[coin_id].short_term.last_price = None
    \/ snapshot[coin_id].long_term.last_price = None

\* The coin has a price and two baselines the tick can divide by.
Scanned(coin_id) ==
    /\ coin_id \in DOMAIN snapshot
    /\ Priced(coin_id)
    /\ ~Unbaselined(coin_id)
    /\ snapshot[coin_id].short_term.last_price # 0
    /\ snapshot[coin_id].long_term.last_price # 0

AlertsOf(coin_id, types) ==
    { k \in 1..Len(notifications) :
          /\ notifications[k].coin_id = coin_id
          /\ notifications[k].type \in types }

AllTypes == {"short_term", "long_term", "absolute"}

ShortElapsed(coin_id) ==
    current_time
        - FromIsoFormat(snapshot[coin_id].short_term.last_notification_time)

LongElapsed(coin_id) ==
    current_time
        - FromIsoFormat(snapshot[coin_id].long_term.last_notification_time)

\* Rule i of the short-term table matches the coin in this tick.
ShortRuleMatches(coin_id, i) ==
    ThresholdMatches(SHORT_TERM_THRESHOLDS[i], current_prices[coin_id],
                     snapshot[coin_id].short_term.last_price,
                     ShortElapsed(coin_id))

LongRuleMatches(coin_id, i) ==
    ThresholdMatches(LONG_TERM_THRESHOLDS[i], current_prices[coin_id],
                     snapshot[coin_id].long_term.last_price,
                     LongElapsed(coin_id))

AbsoluteRuleMatches(coin_id) ==
    ChangeAtLeast(current_prices[coin_id],
                  snapshot[coin_id].short_term.last_price, ABSOLUTE_PERCENT)

\* The baseline a channel holds after it fired or was initialized.
ResetBaseline(coin_id) ==
    [ last_price |-> current_prices[coin_id],
      last_notification_time |-> IsoFormat(current_time) ]

\* C1: a coin with a null last_price on either channel and a price p in the
\* tick gets both last_price set to p and both last_notification_time set
\* to the tick time, in memory and in the document; the state is marked
\* changed; no alert of any kind is emitted for the coin.
C1_InitializationSetsBothBaselines ==
    Ticked =>
        \A c \in DOMAIN snapshot :
            (Unbaselined(c) /\ Priced(c)) =>
                /\ watchlist[c].short_term.last_price = current_prices[c]
                /\ watchlist[c].long_term.last_price = current_prices[c]
                /\ watchlist[c].short_term.last_notification_time
                       = current_time
                /\ watchlist[c].long_term.last_notification_time
                       = current_time
                /\ watchlist_updated
                /\ c \in DOMAIN file
                /\ file[c].short_term = ResetBaseline(c)
                /\ file[c].long_term = ResetBaseline(c)
                /\ AlertsOf(c, AllTypes) = {}

\* A tick after the first initializes one coin while another coin alerts.
C1_Witness ==
    /\ Ticked
    /\ current_time > 0
    /\ \E c \in DOMAIN snapshot : Unbaselined(c) /\ Priced(c)
    /\ notifications # << >>

\* C2: in one tick every coin gets at most one short-term-class alert (a
\* short_term or an absolute one, never both) and at most one long_term
\* alert: each scan stops at the first rule that matches.
C2_AtMostOneAlertPerClass ==
    Ticked =>
        \A c \in Coins :
            /\ Cardinality(AlertsOf(c, {"short_term", "absolute"})) <= 1
            /\ Cardinality(AlertsOf(c, {"long_term"})) <= 1

\* Several rules of each table match one coin, and one alert of each class
\* is emitted.
C2_Witness ==
    /\ Ticked
    /\ \E c \in DOMAIN snapshot :
          /\ Scanned(c)
          /\ ShortRuleMatches(c, 1) /\ ShortRuleMatches(c, 4)
          /\ LongRuleMatches(c, 1) /\ LongRuleMatches(c, 4)
          /\ Cardinality(AlertsOf(c, {"short_term"})) = 1
          /\ Cardinality(AlertsOf(c, {"long_term"})) = 1

\* C3: when a short-term table rule and the absolute rule both match a coin
\* in one tick, exactly one short_term alert and no absolute alert is
\* emitted for it, and its short baseline becomes the current price.
C3_TableAlertSuppressesAbsolute ==
    Ticked =>
        \A c \in DOMAIN snapshot :
            ( /\ Scanned(c)
              /\ AbsoluteRuleMatches(c)
              /\ \E i \in 1..Len(SHORT_TERM_THRESHOLDS) :
                     ShortRuleMatches(c, i) ) =>
                /\ Cardinality(AlertsOf(c, {"short_term"})) = 1
                /\ AlertsOf(c, {"absolute"}) = {}
                /\ file[c].short_term = ResetBaseline(c)

\* Short baseline 100, one minute elapsed, price 102.
C3_Witness ==
    /\ Ticked
    /\ \E c \in DOMAIN snapshot :
          /\ Scanned(c)
          /\ snapshot[c].short_term.last_price = 100
          /\ ShortElapsed(c) = 1
          /\ current_prices[c] = 102
          /\ Cardinality(AlertsOf(c, AllTypes)) = 1
          /\ file[c].short_term.last_price = 102

\* C4: an absolute candidate of a coin is suppressed only by a short_term
\* alert of that coin: a coin that matches the absolute rule and gets no
\* short_term alert gets an absolute alert, and its short baseline is reset.
C4_AbsoluteSuppressedOnlyBySameCoin ==
    Ticked =>
        \A c \in DOMAIN snapshot :
            ( /\ Scanned(c)
              /\ AbsoluteRuleMatches(c)
              /\ AlertsOf(c, {"short_term"}) = {} ) =>
                /\ Cardinality(AlertsOf(c, {"absolute"})) = 1
                /\ file[c].short_term = ResetBaseline(c)

\* C5: after a tick, every coin with a short_term or an absolute alert has,
\* in the document the tick saved, the tick's price as short-term last_price
\* and the tick time as short-term last_notification_time.
C5_ShortClassAlertResetsShortBaseline ==
    Ticked =>
        \A k \in 1..Len(notifications) :
            notifications[k].type \in {"short_term", "absolute"} =>
                LET c == notifications[k].coin_id
                IN  /\ Priced(c)
                    /\ notifications[k].current_price = current_prices[c]
                    /\ c \in DOMAIN file
                    /\ file[c].short_term = ResetBaseline(c)

\* An absolute alert is emitted more than 30 minutes after the last reset.
C5_Witness ==
    /\ Ticked
    /\ \E c \in DOMAIN snapshot :
          /\ AlertsOf(c, {"absolute"}) # {}
          /\ ShortElapsed(c) > 30
          /\ file[c].short_term # snapshot[c].short_term

\* C6: after a tick, every coin with a long_term alert has, in the document
\* the tick saved, the tick's price as long-term last_price and the tick
\* time as long-term last_notification_time.
C6_LongTermAlertResetsLongBaseline ==
    Ticked =>
        \A k \in 1..Len(notifications) :
            notifications[k].type = "long_term" =>
                LET c == notifications[k].coin_id
                IN  /\ Priced(c)
                    /\ notifications[k].current_price = current_prices[c]
                    /\ c \in DOMAIN file
                    /\ file[c].long_term = ResetBaseline(c)

\* A long_term alert without a short-term-class alert for the coin.
C6_Witness ==
    /\ Ticked
    /\ \E c \in DOMAIN snapshot :
          /\ AlertsOf(c, {"long_term"}) # {}
          /\ AlertsOf(c, {"short_term", "absolute"}) = {}
          /\ LongElapsed(c) > 0

\* C7: a coin of the watchlist that has no price in a tick gets no alert,
\* and its record in the document after the tick is the record before the
\* tick, whether or not the tick saved the document.
C7_UnpricedCoinIsUntouched ==
    Ticked =>
        \A c \in DOMAIN snapshot :
            ~Priced(c) =>
                /\ AlertsOf(c, AllTypes) = {}
                /\ c \in DOMAIN file
                /\ file[c] = snapshot[c]

\* A coin with baselines has no price while another coin makes the tick
\* save the document.
C7_Witness ==
    /\ Ticked
    /\ watchlist_updated
    /\ file # snapshot
    /\ \E c \in DOMAIN snapshot : ~Priced(c) /\ ~Unbaselined(c)

\* C8: the last long-term rule has no window: a coin with a price, two
\* non-null and non-zero baselines and a long-term change of at least 15%
\* gets a long_term alert and a reset long baseline whatever time elapsed.
C8_LastLongRuleIsUnbounded ==
    Ticked =>
        \A c \in DOMAIN snapshot :
            ( /\ Scanned(c)
              /\ ChangeAtLeast(current_prices[c],
                               snapshot[c].long_term.last_price, 150) ) =>
                /\ Cardinality(AlertsOf(c, {"long_term"})) = 1
                /\ file[c].long_term = ResetBaseline(c)

(***************************************************************************)
(* Properties of the interleaving of the evaluation loop with the command  *)
(* handler (Spec).                                                         *)
(***************************************************************************)
\* C9: an add_coin or remove_coin that completed between a tick's load and
\* its save is not overwritten: at the step in which the tick opens the
\* file to save, every coin that entered or left the document since the
\* tick read it is in the document the tick writes exactly if it is in the
\* file.
C9_TickSaveKeepsCommands ==
    [][ (tpc = "save" /\ tpc' = "write") =>
            \A c \in Coins :
                ((c \in DOMAIN file) # (c \in DOMAIN snapshot)) =>
                    ((c \in DOMAIN SaveData(watchlist))
                         <=> (c \in DOMAIN file)) ]_vars

\* C10: add_coin and remove_coin for a coin leave the record of every other
\* coin as it is: at the step in which the command opens the file to write,
\* every other coin has in the document the command writes the record it
\* has in the file.
C10_CommandKeepsOtherCoins ==
    [][ (cpc = "save" /\ cpc' = "write") =>
            \A b \in Coins \ {cmd.coin_id} :
                /\ (b \in DOMAIN watchlist_data) <=> (b \in DOMAIN file)
                /\ (b \in DOMAIN file) => watchlist_data[b] = file[b] ]_vars

\* C11: no read of the document by load_watchlist, add_coin or remove_coin
\* falls inside another writer's write: at every step in which the tick
\* loads the file while a command holds the lock, and at every step in
\* which a command reads the file while the tick holds the lock, the
\* document read is the document that writer is writing, so a non-empty
\* watch-state is never read as empty.
C11_ReadersSeeWholeDocument ==
    [][ /\ (tpc = "idle" /\ tpc' # "idle" /\ lock = "cmd") =>
                snapshot' = watchlist_data
        /\ (cpc = "idle" /\ cpc' # "idle" /\ lock = "tick") =>
                file = SaveData(watchlist) ]_vars


(***************************************************************************)
(* Properties of the evaluation loop run step by step (SpecLoop).          *)
(***************************************************************************)
\* check_price_movements has returned from a tick that loaded some coin.
LoopTicked == tpc = "return" /\ snapshot # EmptyDoc

\* Every attempt of get_coin_price in this tick has failed.
PriceSourceFailed == retry_count = max_retries

\* C12: in a tick in which every attempt of the price source fails, no alert
\* is emitted and nothing is written: the tick never reaches its save, and
\* when it returns the document is the one it loaded, record for record, so
\* that the next tick loads the unchanged baselines.
C12_FailedFetchLeavesStateUntouched ==
    PriceSourceFailed =>
        /\ tpc \in {"evaluate", "return"}
        /\ current_prices = << >>
        /\ notifications = << >>
        /\ file = snapshot
        /\ tpc = "return" =>
               /\ ~watchlist_updated
               /\ SaveData(watchlist) = snapshot

\* A later tick fails to get prices for a coin that has its baselines.
C12_Witness ==
    /\ LoopTicked
    /\ PriceSourceFailed
    /\ current_time > 0
    /\ \E c \in DOMAIN snapshot :
          /\ snapshot[c].short_term.last_price \notin {None, 0}
          /\ file[c] = snapshot[c]

Failing(coin_id) ==
    /\ coin_id \in DOMAIN snapshot
    /\ Priced(coin_id)
    /\ ~Unbaselined(coin_id)
    /\ \/ snapshot[coin_id].short_term.last_price = 0
       \/ snapshot[coin_id].long_term.last_price = 0
       \/ ScanRaises(LONG_TERM_THRESHOLDS, 1, "long_term",
                     LoadRecord(snapshot[coin_id]), current_prices[coin_id],
                     current_time)

Restrict(f, S) == [x \in DOMAIN f \cap S |-> f[x]]

\* The notifications about the coins of a set, in their order.
RECURSIVE NotificationsAbout(_, _)
NotificationsAbout(notifs, S) ==
    IF notifs = << >> THEN << >>
    ELSE IF Head(notifs).coin_id \in S
         THEN << Head(notifs) >> \o NotificationsAbout(Tail(notifs), S)
         ELSE NotificationsAbout(Tail(notifs), S)

\* C14: an error raised while one coin is processed does not keep any other
\* coin from being evaluated: after the tick, the notifications about the
\* other coins and the record of every other coin, in memory and in the
\* document, are those of the same tick on the watchlist without the
\* failing coins.
C14_FailingCoinIsIsolated ==
    (Ticked /\ \E c \in DOMAIN snapshot : Failing(c)) =>
        LET others == { c \in DOMAIN snapshot : ~Failing(c) }
            r == Evaluate(LoadWatchlist(Restrict(snapshot, others)),
                          Restrict(current_prices, others), current_time)
        IN  /\ NotificationsAbout(notifications, others) = r.notifications
            /\ \A c \in others :
                  /\ watchlist[c] = r.watchlist[c]
                  /\ c \in DOMAIN file
                  /\ file[c] = SaveRecord(r.watchlist[c])

\* C15: a coin whose short-term or long-term baseline is 0 is inert in a
\* tick: the division by the baseline raises and the error is caught, so the
\* coin gets no alert of any kind and its two baselines and two timestamps
\* are, in memory and in the document, those the tick loaded.
C15_ZeroBaselineIsInert ==
    LoopTicked =>
        \A c \in DOMAIN snapshot :
            ( \/ snapshot[c].short_term.last_price = 0
              \/ snapshot[c].long_term.last_price = 0 ) =>
                /\ AlertsOf(c, AllTypes) = {}
                /\ watchlist[c] = LoadRecord(snapshot[c])
                /\ c \in DOMAIN file
                /\ file[c] = snapshot[c]

\* A coin with baselines 0 is quoted at 116 in a tick that saves the
\* document because of another coin.
C15_Witness ==
    /\ LoopTicked
    /\ watchlist_updated
    /\ file # snapshot
    /\ \E c \in DOMAIN snapshot :
          /\ Failing(c)
          /\ current_prices[c] = 116
          /\ file[c] = snapshot[c]

\* The loop body has run to its end: check_price_movements has returned and
\* every notification was handed to Telegram; time.sleep(60) is next.
BodyDone == tpc = "return" /\ sent = Len(notifications)

WellFormed(info) ==
    /\ DOMAIN info = {"short_term", "long_term", "name", "symbol"}
    /\ info.short_term.last_notification_time[1] = "iso"
    /\ info.long_term.last_notification_time[1] = "iso"

WellFormedIn(doc) == { c \in DOMAIN doc : WellFormed(doc[c]) }

\* C18: load_watchlist skips exactly the malformed records of the document
\* (a required field missing, a timestamp that does not parse) and returns
\* every well-formed record with its prices, its parsed timestamps, its name
\* and its symbol; the tick then evaluates the well-formed coins as usual:
\* a priced coin with a null baseline is initialized, a coin that matches a
\* short-term rule gets its short_term alert and its reset.
C18_MalformedRecordIsSkipped ==
    /\ tpc # "idle" => DOMAIN watchlist = WellFormedIn(snapshot)
    /\ tpc = "fetch" =>
          \A c \in WellFormedIn(snapshot) :
              /\ watchlist[c].short_term.last_price
                     = snapshot[c].short_term.last_price
              /\ watchlist[c].long_term.last_price
                     = snapshot[c].long_term.last_price
              /\ watchlist[c].short_term.last_notification_time
                     = snapshot[c].short_term.last_notification_time[2]
              /\ watchlist[c].long_term.last_notification_time
                     = snapshot[c].long_term.last_notification_time[2]
              /\ watchlist[c].name = snapshot[c].name
              /\ watchlist[c].symbol = snapshot[c].symbol
    /\ tpc = "return" =>
          \A c \in WellFormedIn(snapshot) :
              /\ (Priced(c) /\ Unbaselined(c)) =>
                     /\ file[c].short_term = ResetBaseline(c)
                     /\ file[c].long_term = ResetBaseline(c)
              /\ (Scanned(c) /\ \E i \in 1..Len(SHORT_TERM_THRESHOLDS) :
                                    ShortRuleMatches(c, i)) =>
                     /\ Cardinality(AlertsOf(c, {"short_term"})) = 1
                     /\ file[c].short_term = ResetBaseline(c)

\* The document holds a record without a field and a record with baselines;
\* the second one alerts and is reset.
C18_Witness ==
    /\ tpc = "return"
    /\ DOMAIN snapshot = {1, 2}
    /\ DOMAIN snapshot[1] # {"short_term", "long_term", "name", "symbol"}
    /\ WellFormed(snapshot[2])
    /\ Scanned(2)
    /\ AlertsOf(2, {"short_term"}) # {}
    /\ file[2].short_term = ResetBaseline(2)

(***************************************************************************)
(* Further properties of the interleaving of the evaluation loop with the  *)
(* command handler (Spec).                                                 *)
(***************************************************************************)
Channels == {"short_term", "long_term"}

\* The alert types that belong to a channel.
TypesOf(channel) ==
    IF channel = "short_term" THEN {"short_term", "absolute"}
    ELSE {"long_term"}

\* C19: the persisted last_notification_time of a coin's channel never
\* decreases, whatever ticks and commands about other coins run, and a tick
\* changes it only when that channel fired for the coin or the coin was
\* initialized.  At the step in which a writer opens the file, every coin
\* that is in the file and in the document about to be written (for a
\* command: every such coin but the command's own) has in that document
\* timestamps no earlier than those in the file; and the timestamps a tick
\* writes differ from those it loaded only for a channel with an alert of
\* the tick or for a coin the tick initialized.
C19_NotificationTimeIsMonotone ==
    [][ /\ (cpc = "save" /\ cpc' = "write") =>
              \A b \in (DOMAIN watchlist_data \cap DOMAIN file)
                           \ {cmd.coin_id} :
              \A channel \in Channels :
                  FromIsoFormat(watchlist_data[b][channel]
                                    .last_notification_time)
                      >= FromIsoFormat(file[b][channel]
                                           .last_notification_time)
        /\ (tpc = "save" /\ tpc' = "write") =>
              /\ \A c \in DOMAIN watchlist \cap DOMAIN file :
                 \A channel \in Channels :
                     watchlist[c][channel].last_notification_time
                         >= FromIsoFormat(file[c][channel]
                                              .last_notification_time)
              /\ \A c \in DOMAIN watchlist :
                 \A channel \in Channels :
                     ( watchlist[c][channel].last_notification_time
                           # FromIsoFormat(snapshot[c][channel]
                                               .last_notification_time) ) =>
                         \/ AlertsOf(c, TypesOf(channel)) # {}
                         \/ Unbaselined(c) /\ Priced(c) ]_vars

\* The records of a document that have both channels with a last_price.
Priceable(doc) ==
    { c \in DOMAIN doc :
          /\ {"short_term", "long_term"} \subseteq DOMAIN doc[c]
          /\ "last_price" \in DOMAIN doc[c].short_term
          /\ "last_price" \in DOMAIN doc[c].long_term }

\* C20: in every persisted state, every coin's short-term last_price and
\* long-term last_price are both null or both non-null, whatever adds,
\* removes, syncs and ticks have run.
C20_BaselinesNullTogether ==
    /\ Priceable(file) = DOMAIN file
    /\ \A c \in DOMAIN file :
          (file[c].short_term.last_price = None)
              <=> (file[c].long_term.last_price = None)

\* While add_coin still waits to write the coin it saved to tokens.json,
\* the sync has put that coin into the file with null baselines, beside a
\* coin a tick has baselined.
C20_Witness ==
    /\ cmd.op = "add"
    /\ cpc = "save"
    /\ cmd.coin_id \in DOMAIN file
    /\ file[cmd.coin_id].short_term.last_price = None
    /\ file[cmd.coin_id].long_term.last_price = None
    /\ \E c \in DOMAIN file : /\ file[c].short_term.last_price # None
                              /\ file[c].long_term.last_price # None

(***************************************************************************)
(* Further properties of one tick (SpecTick).                              *)
(***************************************************************************)
\* The percent change of the price against a baseline reaches percent
\* (in tenths of a percent), the boundary included.
Reaches(price, base, percent) ==
    \/ (price - base) * 1000 >= percent * base
    \/ (base - price) * 1000 >= percent * base

\* C21: a coin with a price and non-null, non-zero baselines gets a
\* short_term alert in a tick if and only if some rule (p, w) of the
\* short-term table has abs(short change percent) >= p and the time since
\* the short-term last_notification_time <= w, both boundaries included.
C21_ShortTermAlertIffRuleMatches ==
    Ticked =>
        \A c \in DOMAIN snapshot :
            Scanned(c) =>
                ( AlertsOf(c, {"short_term"}) # {}
                  <=> \E i \in 1..Len(SHORT_TERM_THRESHOLDS) :
                         /\ Reaches(current_prices[c],
                                    snapshot[c].short_term.last_price,
                                    SHORT_TERM_THRESHOLDS[i].percent)
                         /\ ShortElapsed(c)
                                <= SHORT_TERM_THRESHOLDS[i].minutes )

\* Short baseline 100, price 102, 30 minutes elapsed: the last rule
\* (2.0%, 30 minutes) is met at both boundaries and no other rule is; the
\* alert is emitted.
C21_Witness ==
    /\ Ticked
    /\ \E c \in DOMAIN snapshot :
          /\ Scanned(c)
          /\ snapshot[c].short_term.last_price = 100
          /\ current_prices[c] = 102
          /\ ShortElapsed(c) = 30
          /\ AlertsOf(c, {"short_term"}) # {}

\* The long-term change of the coin reaches the percent of long-term rule i.
LongMagnitudeMet(c, i) ==
    Reaches(current_prices[c], snapshot[c].long_term.last_price,
            LONG_TERM_THRESHOLDS[i].percent)

\* The window of long-term rule i is still open for the coin (the last
\* rule has no window to expire).
LongWindowOpen(c, i) ==
    \/ LONG_TERM_THRESHOLDS[i].unbounded
    \/ LongElapsed(c) <= LONG_TERM_THRESHOLDS[i].minutes

\* C22: a long_term alert needs one rule with both its magnitude and its
\* window satisfied: when every long-term rule whose magnitude is met has
\* an expired window and every rule whose window is open has an unmet
\* magnitude, the coin gets no long_term alert and its long baseline stays
\* as it was.
C22_LongTermNeedsOneRuleWithBoth ==
    Ticked =>
        \A c \in DOMAIN snapshot :
            ( /\ Scanned(c)
              /\ \A i \in 1..Len(LONG_TERM_THRESHOLDS) :
                     ~(LongMagnitudeMet(c, i) /\ LongWindowOpen(c, i)) ) =>
                /\ AlertsOf(c, {"long_term"}) = {}
                /\ c \in DOMAIN file
                /\ file[c].long_term = snapshot[c].long_term

\* Long baseline 102, price 116 (13.7%), 1500 minutes elapsed: the
\* magnitudes of the rules up to 12% are met and their windows (at most
\* 1440 minutes) have expired, the rule without a window needs 15%.  The
\* tick saves (an absolute alert) and the long baseline is the old one.
C22_Witness ==
    /\ Ticked
    /\ watchlist_updated
    /\ \E c \in DOMAIN snapshot :
          /\ Scanned(c)
          /\ LongMagnitudeMet(c, 1) /\ ~LongWindowOpen(c, 1)
          /\ LongMagnitudeMet(c, 4) /\ ~LongWindowOpen(c, 4)
          /\ LongWindowOpen(c, 5) /\ ~LongMagnitudeMet(c, 5)
          /\ AlertsOf(c, {"long_term"}) = {}
          /\ file[c].long_term = snapshot[c].long_term

ShortClass == {"short_term", "absolute"}

\* C23: the two channels of a coin are reset independently.  A tick with a
\* short-term-class alert and no long_term alert for a coin leaves the
\* coin's long-term last_price and last_notification_time as they were; a
\* tick with a long_term alert and no short-term-class alert for a coin
\* leaves its short-term last_price and last_notification_time as they
\* were.
C23_ChannelsResetIndependently ==
    Ticked =>
        \A c \in DOMAIN snapshot :
            /\ ( /\ AlertsOf(c, ShortClass) # {}
                 /\ AlertsOf(c, {"long_term"}) = {} ) =>
                   /\ c \in DOMAIN file
                   /\ file[c].long_term = snapshot[c].long_term
                   /\ file[c].short_term # snapshot[c].short_term
            /\ ( /\ AlertsOf(c, {"long_term"}) # {}
                 /\ AlertsOf(c, ShortClass) = {} ) =>
                   /\ c \in DOMAIN file
                   /\ file[c].short_term = snapshot[c].short_term
                   /\ file[c].long_term # snapshot[c].long_term

\* One tick in which a coin has only a short-term-class alert and another
\* coin only a long_term alert.
C23_Witness ==
    /\ Ticked
    /\ \E c \in DOMAIN snapshot :
          /\ AlertsOf(c, ShortClass) # {}
          /\ AlertsOf(c, {"long_term"}) = {}
    /\ \E c \in DOMAIN snapshot :
          /\ AlertsOf(c, {"long_term"}) # {}
          /\ AlertsOf(c, ShortClass) = {}

\* The locals of the tick when the loop over the coins has ended, before
\* the overlap pass and the reset of the short-term baselines.
AfterScans ==
    ProcessCoins([ watchlist |-> LoadWatchlist(snapshot),
                   notifications |-> << >>,
                   absolute_notifications |-> << >>,
                   watchlist_updated |-> FALSE ],
                 SortedSeq(DOMAIN LoadWatchlist(snapshot)), 1,
                 current_prices, current_time)

\* The entries of a list of notifications that are about the coin and of
\* the type.
EntriesOf(notifs, coin_id, type) ==
    { k \in 1..Len(notifs) :
          notifs[k].coin_id = coin_id /\ notifs[k].type = type }

C25_RemovedCoinStaysAbsent ==
    (cmd.op = "remove" /\ cpc = "return" /\ cret) =>
        cmd.coin_id \notin DOMAIN file

(***************************************************************************)
(* Further properties of the evaluation loop alone (SpecLoop).             *)
(***************************************************************************)
\* The tick initialized a coin or emitted an alert.
InitializedOrAlerted ==
    \/ \E c \in DOMAIN snapshot : Unbaselined(c) /\ Priced(c)
    \/ notifications # << >>

\* C26: a tick writes the watch-state if and only if it initialized a coin
\* or emitted an alert (short_term, long_term or absolute).  The evaluation
\* goes on to save_watchlist exactly in that case; when the tick returns,
\* the document is the watchlist the tick computed in that case and the
\* document the tick loaded otherwise; and the document changes only in the
\* steps of save_watchlist.
C26_SavesIffChanged ==
    /\ [](/\ tpc \in {"save", "write"} => InitializedOrAlerted
          /\ tpc = "return" =>
                 IF InitializedOrAlerted
                 THEN file = SaveData(watchlist) /\ file # snapshot
                 ELSE file = snapshot)
    /\ [][ /\ tpc = "evaluate" =>
                 (tpc' = "save" <=> InitializedOrAlerted')
           /\ file' # file => tpc \in {"save", "write"} ]_vars

\* A tick on a document an earlier tick has saved: a coin with baselines
\* has a price, nothing is initialized, no alert is emitted and the tick
\* returns without a write.
C26_Witness ==
    /\ tpc = "return"
    /\ advances > 0
    /\ \E c \in DOMAIN snapshot : Scanned(c)
    /\ ~InitializedOrAlerted
    /\ ~watchlist_updated
    /\ file = snapshot

(***************************************************************************)
(* Properties of the start of the evaluation loop beside the command       *)
(* handler (SpecStart).                                                    *)
(***************************************************************************)
\* The activities that have watchlist.json open for writing.
Writers ==
    (IF tpc \in {"write", "sync_write", "init_write"} THEN {"loop"}
     ELSE {})
        \cup (IF cpc = "write" THEN {"command"} ELSE {})

\* C27: at most one writer is inside a write of watchlist.json at any time,
\* and whoever has the file open for writing (save_watchlist, add_coin,
\* remove_coin, the creation of the empty document in __init__) holds the
\* lock.
C27_WritersHoldTheLock ==
    /\ Cardinality(Writers) <= 1
    /\ Writers # {} => lock # "free"

(***************************************************************************)
(* Further properties of the evaluation loop on a document with malformed  *)
(* records (SpecLoad).                                                     *)
(***************************************************************************)
\* C28: a record load_watchlist skips as malformed is not removed from the
\* document by the tick: when a tick that saved returns, every coin id of
\* the document the tick read is still in the document.
C28_SkippedRecordIsKept ==
    (tpc = "return" /\ watchlist_updated) =>
        \A c \in DOMAIN snapshot : c \in DOMAIN file

(***************************************************************************)
(* Properties of a tick that sees the quotes of the tick before            *)
(* (SpecRepeat).                                                           *)
(***************************************************************************)
\* C29: when a tick that saved its state is followed, with no command in
\* between, by a tick with the same price map at any later time, the second
\* tick emits no alert and changes no record.
C29_SameQuotesChangeNothing ==
    [][ ( /\ tpc = "sleep" /\ tpc' = "sleep"
          /\ watchlist_updated
          /\ current_prices' = current_prices ) =>
            /\ notifications' = << >>
            /\ ~watchlist_updated'
            /\ file' = file ]_vars

(***************************************************************************)
(* A further property of the interleaving of the evaluation loop with the  *)
(* command handler (Spec).                                                 *)
(***************************************************************************)
\* The widest window of the short-term table (30 minutes).
ShortTermHorizon ==
    SHORT_TERM_THRESHOLDS[Len(SHORT_TERM_THRESHOLDS)].minutes

\* The coin has a short-term baseline in the document and more than 30
\* minutes have gone by since its short-term last_notification_time.
ShortTermSilent(doc, c, now) ==
    /\ doc[c].short_term.last_price # None
    /\ now - FromIsoFormat(doc[c].short_term.last_notification_time)
           > ShortTermHorizon

\* C30: once more than 30 minutes have gone by since a coin's short-term
\* last_notification_time, no tick emits a short_term alert for the coin
\* until its short-term baseline is reset, and only an emitted absolute
\* alert or a remove followed by an add resets it.  A tick emits no
\* short_term alert for a coin it loaded in that condition; at the step in
\* which a writer opens the file, a coin that is in that condition in the
\* file and stays in the document gets another short-term baseline only
\* from a tick with an absolute alert for it, and never from a command.
C30_OnlyAbsoluteRearmsShortTerm ==
    [][ /\ (tpc = "fetch" /\ tpc' # "fetch") =>
              \A c \in DOMAIN snapshot :
                  ShortTermSilent(snapshot, c, current_time) =>
                      \A k \in 1..Len(notifications') :
                          ~( /\ notifications'[k].coin_id = c
                             /\ notifications'[k].type = "short_term" )
        /\ (tpc = "save" /\ tpc' = "write") =>
              \A c \in DOMAIN file \cap DOMAIN watchlist :
                  ( /\ ShortTermSilent(file, c, current_time)
                    /\ SaveRecord(watchlist[c]).short_term
                           # file[c].short_term ) =>
                      AlertsOf(c, {"absolute"}) # {}
        /\ (cpc = "save" /\ cpc' = "write") =>
              \A c \in DOMAIN file \cap DOMAIN watchlist_data :
                  ShortTermSilent(file, c, clock) =>
                      watchlist_data[c].short_term = file[c].short_term
      ]_vars

\* The watch-state as persisted: while a writer is between its open with
\* mode "w" and its dump, the document it is writing.
Store ==
    IF lock = "tick" THEN SaveData(watchlist)
    ELSE IF lock = "cmd" THEN watchlist_data
    ELSE file

\* C31: add_coin for a coin that is already in the persisted watch-state
\* returns True and changes nothing.  A step in which add_coin reads the
\* document while the coin is in the watch-state goes straight to the
\* return of True and leaves the file as it is; and add_coin never opens
\* the file to write a record for a coin that is in the file with another
\* record (baselines and timestamps set to null and to now).
C31_AddOfWatchedCoinChangesNothing ==
    [][ /\ ( /\ cpc = "idle" /\ cpc' # "idle"
             /\ cmd'.op = "add"
             /\ cmd'.coin_id \in DOMAIN Store ) =>
               /\ cpc' = "return"
               /\ cret'
               /\ file' = file
        /\ ( /\ cpc = "save" /\ cpc' = "write"
             /\ cmd.op = "add"
             /\ cmd.coin_id \in DOMAIN file ) =>
               watchlist_data[cmd.coin_id] = file[cmd.coin_id]
      ]_vars

=============================================================================
